---- MODULE Spec2Model ----
(***************************************************************************)
(* Model of price-tracker.py: the Grand Exchange price monitor.            *)
(*                                                                         *)
(* One foreground context (the GUI event loop) runs get_price,             *)
(* start_monitoring and stop_monitoring; every start_monitoring creates a  *)
(* daemon thread that runs monitor_price.  The threads and the foreground  *)
(* share the global flag `monitoring`, the two buttons and the two labels. *)
(***************************************************************************)
EXTENDS Integers, Sequences, FiniteSets, TLC

\* Number of monitor threads that start_monitoring may create in one run.
MaxThreads == 2

Threads == 1..MaxThreads

\* Python's None / an optional value: <<>> is None, <<v>> is the value v.
None == <<>>

Some(v) == <<v>>

---------------------------------------------------------------------------
(* Strings the user can type.  A string is a sequence of characters so     *)
(* that int() and str() are computed, not assumed.                         *)

Digits == <<"0", "1", "2", "3", "4", "5", "6", "7", "8", "9">>

DigitChars == {Digits[i] : i \in 1..10}

DigitValue(c) == (CHOOSE i \in 1..10 : Digits[i] = c) - 1

\* str.strip() as int() applies it: leading and trailing blanks are dropped.
RECURSIVE StripLeft(_)
StripLeft(s) == IF s # <<>> /\ Head(s) = " " THEN StripLeft(Tail(s)) ELSE s

RECURSIVE StripRight(_)
StripRight(s) ==
    IF s # <<>> /\ s[Len(s)] = " " THEN StripRight(SubSeq(s, 1, Len(s) - 1)) ELSE s

Strip(s) == StripRight(StripLeft(s))

\* The digits of s after an optional sign.
Unsigned(s) == IF s # <<>> /\ Head(s) \in {"+", "-"} THEN Tail(s) ELSE s

\* int(s) succeeds: optional blanks, an optional sign, one or more digits.
IsIntLiteral(s) ==
    LET u == Unsigned(Strip(s))
    IN  u # <<>> /\ \A i \in 1..Len(u) : u[i] \in DigitChars

RECURSIVE DigitsValue(_)
DigitsValue(u) ==
    IF u = <<>> THEN 0
    ELSE 10 * DigitsValue(SubSeq(u, 1, Len(u) - 1)) + DigitValue(u[Len(u)])

\* The value of int(s) when it succeeds.
IntValue(s) ==
    LET t == Strip(s)
    IN  IF t # <<>> /\ Head(t) = "-" THEN 0 - DigitsValue(Unsigned(t))
        ELSE DigitsValue(Unsigned(t))

\* str(n) for a non-negative integer n.
RECURSIVE IntToStr(_)
IntToStr(n) ==
    IF n < 10 THEN <<Digits[n + 1]>>
    ELSE Append(IntToStr(n \div 10), Digits[(n % 10) + 1])

---------------------------------------------------------------------------
(* The mapping endpoint: fetch_item_data builds item_dict once.            *)

\* Names the user can have in the search box.
Names == {"Cannonball", "Dwarf remains", "Nope"}

\* A mapping response with status 200: name -> id.
FullCatalog ==
    [n \in {"Cannonball", "Dwarf remains"} |->
        IF n = "Cannonball" THEN 2 ELSE 0]

\* fetch_item_data returns {} when the request did not succeed.
EmptyCatalog == [n \in {} |-> 0]

Catalogs == {FullCatalog, EmptyCatalog}

\* dict.get(name): the id, or None when the name is not a key.
DictGet(d, name) == IF name \in DOMAIN d THEN Some(d[name]) ELSE None

\* Python truthiness of an item id: `if not item_id` is taken for None and 0.
Truthy(id) == id # None /\ id[1] # 0

---------------------------------------------------------------------------
(* The latest-price endpoint: fetch_prices returns the `data` table.       *)

\* <<low, high>> readings of one item.
Quotes == {<<150, 150>>, <<100, 200>>, <<50, 150>>}

Entry(q) == [low |-> q[1], high |-> q[2]]

\* fetch_prices returns {} when the request did not succeed.
EmptyTable == [k \in {} |-> Entry(<<0, 0>>)]

\* A table that has other items but not Cannonball (id 2).
OtherTable == [k \in {IntToStr(453)} |-> Entry(<<100, 120>>)]

TableWith(q) ==
    [k \in {IntToStr(2), IntToStr(453)} |->
        IF k = IntToStr(2) THEN Entry(q) ELSE Entry(<<100, 120>>)]

PriceTables == {EmptyTable, OtherTable} \cup {TableWith(q) : q \in Quotes}

\* `not price_data or str(item_id) not in price_data` is false.
Available(price_data, id) ==
    /\ DOMAIN price_data # {}
    /\ IntToStr(id) \in DOMAIN price_data

---------------------------------------------------------------------------
(* What the user can have typed into the two threshold boxes.              *)

Str100 == <<"1", "0", "0">>

Str200 == <<"2", "0", "0">>

StrNeg5 == <<"-", "5">>

StrAbc == <<"a", "b", "c">>

StrFrac == <<"1", ".", "5">>

StrPadded == <<" ", "1", "0", "0", " ">>

\* <<low box, high box>>
ThresholdInputs ==
    { <<<<>>, <<>>>>, <<StrAbc, <<>>>>, <<<<>>, StrFrac>>, <<Str100, StrAbc>>,
      <<Str100, <<>>>>, <<StrPadded, <<>>>>, <<<<>>, Str200>>,
      <<Str100, StrNeg5>> }

---------------------------------------------------------------------------
(* Status texts written to status_label.                                   *)

ItemNotFound == "Item not found! Select a valid item."

NoThresholdProvided == "Enter at least a Low or High price."

InvalidThreshold == "Invalid price values!"

MonitoringStarted == "Monitoring started..."

PriceUnavailable == "Price data unavailable."

MonitoringStopped == "Monitoring stopped."

---------------------------------------------------------------------------
VARIABLES
    item_dict,        \* global: name -> id, built once at start-up
    monitoring,       \* global flag read by every monitor loop
    start_button,     \* "normal" | "disabled"
    stop_button,      \* "normal" | "disabled"
    status_label,     \* text of the status label
    result_label,     \* None, or <<name, low, high>> as last displayed
    notification,     \* alerts raised by the most recent poll tick
    pc,               \* per thread: position in monitor_price
    item,             \* per thread: None or <<item_name, item_id>>
    low_price_alert,  \* per thread: None or <<int>>
    high_price_alert, \* per thread: None or <<int>>
    stopped           \* stop_monitoring was called and start_monitoring not since

vars == <<item_dict, monitoring, start_button, stop_button, status_label,
          result_label, notification, pc, item,
          low_price_alert, high_price_alert, stopped>>

gui == <<start_button, stop_button>>

locals == <<item, low_price_alert, high_price_alert>>

\* A thread whose monitor_price is inside the `while monitoring` loop.
InLoop(t) == pc[t] \in {"while", "fetch", "sleep"}

Init ==
    /\ item_dict \in Catalogs
    /\ monitoring = FALSE
    /\ start_button = "normal"
    /\ stop_button = "disabled"
    /\ status_label = ""
    /\ result_label = None
    /\ notification = {}
    /\ pc = [t \in Threads |-> "unborn"]
    /\ item = [t \in Threads |-> None]
    /\ low_price_alert = [t \in Threads |-> None]
    /\ high_price_alert = [t \in Threads |-> None]
    /\ stopped = FALSE

---------------------------------------------------------------------------
(* Foreground operations.                                                  *)

\* get_price that also clears the monitoring flag.
get_price_Disarms(item_name, price_data) ==
    /\ monitoring' = FALSE
    /\ UNCHANGED <<pc, item_dict, gui, notification, locals, stopped>>
    /\ LET item_id == DictGet(item_dict, item_name)
       IN  IF ~Truthy(item_id)
           THEN /\ status_label' = ItemNotFound
                /\ UNCHANGED result_label
           ELSE IF ~Available(price_data, item_id[1])
           THEN /\ status_label' = PriceUnavailable
                /\ UNCHANGED result_label
           ELSE /\ result_label' = <<item_name,
                                     price_data[IntToStr(item_id[1])].low,
                                     price_data[IntToStr(item_id[1])].high>>
                /\ UNCHANGED status_label

\* The Get Price button's command; price_data is what fetch_prices returns.
\* It runs on the foreground context, so no other command runs inside it.
get_price(item_name, price_data) ==
    /\ UNCHANGED <<pc, item_dict, monitoring, gui, notification, locals,
                   stopped>>
    /\ LET item_id == DictGet(item_dict, item_name)
       IN  IF ~Truthy(item_id)
           THEN /\ status_label' = ItemNotFound
                /\ UNCHANGED result_label
           ELSE IF ~Available(price_data, item_id[1])
           THEN /\ status_label' = PriceUnavailable
                /\ UNCHANGED result_label
           ELSE /\ result_label' = <<item_name,
                                     price_data[IntToStr(item_id[1])].low,
                                     price_data[IntToStr(item_id[1])].high>>
                /\ UNCHANGED status_label

\* The Start button's command; a disabled button does not run it.
start_monitoring(t) ==
    /\ start_button = "normal"
    /\ pc[t] = "unborn"
    /\ \A u \in Threads : u < t => pc[u] # "unborn"
    /\ pc' = [pc EXCEPT ![t] = "start"]
    /\ stopped' = FALSE
    /\ UNCHANGED <<item_dict, monitoring, gui, status_label, result_label,
                   notification, locals>>

\* The Stop button's command; a disabled button does not run it.
stop_monitoring ==
    /\ stop_button = "normal"
    /\ monitoring' = FALSE
    /\ start_button' = "normal"
    /\ stop_button' = "disabled"
    /\ status_label' = MonitoringStopped
    /\ stopped' = TRUE
    /\ UNCHANGED <<item_dict, result_label, notification, pc, locals>>

---------------------------------------------------------------------------
(* monitor_price, run by thread t.                                         *)

\* Reject without its return: the error is shown and the loop is entered.
Reject_NoReturn(t, text) ==
    /\ status_label' = text
    /\ pc' = [pc EXCEPT ![t] = "while"]
    /\ monitoring' = TRUE
    /\ UNCHANGED <<gui, locals>>

\* An early return of monitor_price: the error text is shown, nothing else.
Reject(t, text) ==
    /\ status_label' = text
    /\ pc' = [pc EXCEPT ![t] = "rejected"]
    /\ UNCHANGED <<monitoring, gui, locals>>

\* The threshold test with its condition inverted.
NoThreshold_Inverted(low_str, high_str) == low_str # <<>> /\ high_str # <<>>

\* `not low_price_alert and not high_price_alert`: both boxes are empty.
NoThreshold(low_str, high_str) == low_str = <<>> /\ high_str = <<>>

\* One of the int() conversions in the try block raises ValueError.
ConversionFails(low_str, high_str) ==
    \/ low_str # <<>> /\ ~IsIntLiteral(low_str)
    \/ high_str # <<>> /\ ~IsIntLiteral(high_str)

\* From the entry of monitor_price to the loop: validation and arming.
monitor_price_start(t, item_name, low_str, high_str) ==
    /\ pc[t] = "start"
    /\ LET item_id == DictGet(item_dict, item_name)
       IN  IF ~Truthy(item_id)
           THEN Reject(t, ItemNotFound)
           ELSE IF NoThreshold(low_str, high_str)
           THEN Reject(t, NoThresholdProvided)
           ELSE IF ConversionFails(low_str, high_str)
           THEN Reject(t, InvalidThreshold)
           ELSE /\ low_price_alert' = [low_price_alert EXCEPT ![t] =
                       IF low_str # <<>> THEN Some(IntValue(low_str)) ELSE None]
                /\ high_price_alert' = [high_price_alert EXCEPT ![t] =
                       IF high_str # <<>> THEN Some(IntValue(high_str)) ELSE None]
                /\ item' = [item EXCEPT ![t] = <<item_name, item_id[1]>>]
                /\ monitoring' = TRUE
                /\ start_button' = "disabled"
                /\ stop_button' = "normal"
                /\ status_label' = MonitoringStarted
                /\ pc' = [pc EXCEPT ![t] = "while"]
    /\ UNCHANGED <<item_dict, result_label, notification, stopped>>

\* The loop's test; when it passes, fetch_prices is called (the only place
\* where monitor_price fetches) and the thread waits for the response.
monitor_price_while(t) ==
    /\ pc[t] = "while"
    /\ IF monitoring
       THEN /\ pc' = [pc EXCEPT ![t] = "fetch"]
            /\ UNCHANGED locals
       ELSE /\ pc' = [pc EXCEPT ![t] = "done"]
            /\ item' = [item EXCEPT ![t] = None]
            /\ low_price_alert' = [low_price_alert EXCEPT ![t] = None]
            /\ high_price_alert' = [high_price_alert EXCEPT ![t] = None]
    /\ UNCHANGED <<item_dict, monitoring, gui, status_label, result_label,
                   notification, stopped>>

\* The low comparison made strict.
LowAlertFires_Strict(alert, low_price) == alert # None /\ low_price < alert[1]

LowAlertFires(alert, low_price) == alert # None /\ low_price <= alert[1]

HighAlertFires(alert, high_price) == alert # None /\ high_price >= alert[1]

\* The alerts one tick raises for the reading <<low_price, high_price>>.
Alerts(t, low_price, high_price) ==
    (IF LowAlertFires(low_price_alert[t], low_price)
        THEN {<<"LowPriceAlert", low_price>>} ELSE {})
    \cup
    (IF HighAlertFires(high_price_alert[t], high_price)
        THEN {<<"HighPriceAlert", high_price>>} ELSE {})

\* fetch_prices returns price_data: the rest of the loop body up to sleep.
monitor_price_poll(t, price_data) ==
    /\ pc[t] = "fetch"
    /\ IF ~Available(price_data, item[t][2])
       THEN /\ status_label' = PriceUnavailable
            /\ pc' = [pc EXCEPT ![t] = "done"]
            /\ item' = [item EXCEPT ![t] = None]
            /\ low_price_alert' = [low_price_alert EXCEPT ![t] = None]
            /\ high_price_alert' = [high_price_alert EXCEPT ![t] = None]
            /\ UNCHANGED <<result_label, notification>>
       ELSE LET low_price == price_data[IntToStr(item[t][2])].low
                high_price == price_data[IntToStr(item[t][2])].high
            IN  /\ result_label' = <<item[t][1], low_price, high_price>>
                /\ notification' = Alerts(t, low_price, high_price)
                /\ pc' = [pc EXCEPT ![t] = "sleep"]
                /\ UNCHANGED <<status_label, locals>>
    /\ UNCHANGED <<item_dict, monitoring, gui, stopped>>

\* time.sleep(60) returns.
monitor_price_sleep(t) ==
    /\ pc[t] = "sleep"
    /\ pc' = [pc EXCEPT ![t] = "while"]
    /\ UNCHANGED <<item_dict, monitoring, gui, status_label, result_label,
                   notification, locals, stopped>>

---------------------------------------------------------------------------
\* What fetch_prices can return to get_price for the name item_name; when
\* the item is not found get_price returns before calling it.
FetchResults(item_name) ==
    IF Truthy(DictGet(item_dict, item_name)) THEN PriceTables ELSE {EmptyTable}

\* The threshold boxes as monitor_price reads them for the name item_name;
\* when the item is not found it returns before reading them.
BoxesRead(item_name) ==
    IF Truthy(DictGet(item_dict, item_name)) THEN ThresholdInputs
    ELSE {<<<<>>, <<>>>>}

\* One click on Get Price.
GetPriceStep ==
    \E n \in Names : \E pd \in FetchResults(n) : get_price(n, pd)

ThreadStep(t) ==
    \/ \E n \in Names : \E th \in BoxesRead(n) :
            monitor_price_start(t, n, th[1], th[2])
    \/ monitor_price_while(t)
    \/ \E pd \in PriceTables : monitor_price_poll(t, pd)
    \/ monitor_price_sleep(t)

Next ==
    \/ GetPriceStep
    \/ \E t \in Threads : start_monitoring(t)
    \/ stop_monitoring
    \/ \E t \in Threads : ThreadStep(t)

Spec == Init /\ [][Next]_vars

\* Every started thread keeps running: fetches return and sleeps end.
SpecFair == Spec /\ \A t \in Threads : WF_vars(ThreadStep(t))

---------------------------------------------------------------------------
(* Properties.                                                             *)

\* A poll step of thread t that found the item in the table price_data.
PollAvailable(t, price_data) ==
    /\ pc[t] = "fetch"
    /\ Available(price_data, item[t][2])
    /\ monitor_price_poll(t, price_data)

\* A poll step of thread t whose table price_data lacks the item.
PollUnavailable(t, price_data) ==
    /\ pc[t] = "fetch"
    /\ ~Available(price_data, item[t][2])
    /\ monitor_price_poll(t, price_data)

\* C1: while monitoring is false (stop_monitoring has cleared it) no monitor
\* loop performs a tick that shows a price update or raises an alert.
C1_NoEventsAfterStop ==
    [][monitoring = FALSE =>
        ~(\E t \in Threads, pd \in PriceTables : PollAvailable(t, pd))]_vars

\* C2: at most one thread is inside the poll loop at any time.
C2_AtMostOneLoop == Cardinality({t \in Threads : InLoop(t)}) <= 1

\* C3: a poll that finds the price unavailable ends the loop, reports
\* "Price data unavailable." and leaves the monitor idle: monitoring is
\* false and the Start button accepts a new start.
C3_UnavailableReturnsToIdle ==
    [][\A t \in Threads : (pc[t] = "fetch" /\ pc'[t] # "fetch") => \A pd \in PriceTables :
        PollUnavailable(t, pd) =>
            /\ pc'[t] = "done"
            /\ status_label' = PriceUnavailable
            /\ monitoring' = FALSE
            /\ start_button' = "normal"]_vars

\* C4 as stated: a start with both thresholds empty is rejected with
\* NoThresholdProvided for every item name.
C4_AlwaysNoThresholdProvided ==
    [][\A t \in Threads : (pc[t] = "start" /\ pc'[t] # "start") => \A n \in Names :
        monitor_price_start(t, n, <<>>, <<>>) =>
            /\ pc'[t] = "rejected"
            /\ status_label' = NoThresholdProvided]_vars

\* C4 amended: a start with both thresholds empty is always rejected and
\* never arms; the rejection is ItemNotFound when the name is absent from
\* the catalog, and NoThresholdProvided when the item check passes.
C4_RejectsWithoutThreshold ==
    [][\A t \in Threads : (pc[t] = "start" /\ pc'[t] # "start") => \A n \in Names :
        monitor_price_start(t, n, <<>>, <<>>) =>
            /\ pc'[t] = "rejected"
            /\ monitoring' = monitoring
            /\ status_label' \in {ItemNotFound, NoThresholdProvided}
            /\ n \notin DOMAIN item_dict => status_label' = ItemNotFound
            /\ (n \in DOMAIN item_dict /\ item_dict[n] # 0)
                  => status_label' = NoThresholdProvided]_vars

\* C4 witness: a start with both thresholds empty was rejected for a
\* catalogued item.
C4_Witness ==
    \E t \in Threads : pc[t] = "rejected" /\ status_label = NoThresholdProvided

\* Threshold inputs in which a box that is filled in is not a number.
NonNumericInputs ==
    { <<StrAbc, <<>>>>, <<<<>>, StrFrac>>, <<Str100, StrAbc>> }

\* C5 as stated: a start with a non-numeric threshold is rejected with
\* InvalidThreshold, before the loop (the only place that fetches prices)
\* and without arming.
C5_AlwaysInvalidThreshold ==
    [][\A t \in Threads : (pc[t] = "start" /\ pc'[t] # "start") =>
       \A n \in Names, th \in NonNumericInputs :
        monitor_price_start(t, n, th[1], th[2]) =>
            /\ pc'[t] = "rejected"
            /\ status_label' = InvalidThreshold
            /\ monitoring' = monitoring]_vars

\* C5 amended: a start with a non-numeric threshold is always rejected
\* before any price fetch and never arms; the rejection is ItemNotFound
\* when the name is absent from the catalog, and InvalidThreshold when the
\* item check passes.  A rejected start has returned: it never reaches the
\* loop, where the price fetch is.
C5_RejectsNonNumeric ==
    [][/\ \A t \in Threads : (pc[t] = "start" /\ pc'[t] # "start") =>
          \A n \in Names, th \in NonNumericInputs :
            monitor_price_start(t, n, th[1], th[2]) =>
                /\ pc'[t] = "rejected"
                /\ monitoring' = monitoring
                /\ status_label' \in {ItemNotFound, InvalidThreshold}
                /\ n \notin DOMAIN item_dict => status_label' = ItemNotFound
                /\ (n \in DOMAIN item_dict /\ item_dict[n] # 0)
                      => status_label' = InvalidThreshold
       /\ \A t \in Threads : pc[t] = "rejected" => pc'[t] = "rejected"]_vars

\* C5 witness: a start was rejected for its non-numeric threshold while
\* nothing was armed.
C5_Witness ==
    /\ status_label = InvalidThreshold
    /\ ~monitoring
    /\ \E t \in Threads : pc[t] = "rejected"

\* C6: every threshold of an accepted session is a non-negative integer.
C6_ThresholdsNonNegative ==
    \A t \in Threads :
        InLoop(t) =>
            /\ low_price_alert[t] # None => low_price_alert[t][1] >= 0
            /\ high_price_alert[t] # None => high_price_alert[t][1] >= 0

\* C7: a tick with an available quote shows the quote, raises the low alert
\* exactly when the low threshold is set and quote.low <= it, and raises the
\* high alert exactly when the high threshold is set and quote.high >= it;
\* nothing else is raised and nothing of earlier ticks enters the decision.
C7_AlertsExactlyOnCrossing ==
    [][\A t \in Threads : (pc[t] = "fetch" /\ pc'[t] # "fetch") => \A pd \in PriceTables :
        PollAvailable(t, pd) =>
            LET q == pd[IntToStr(item[t][2])]
                lowSet == low_price_alert[t] # None
                highSet == high_price_alert[t] # None
            IN  /\ result_label' = <<item[t][1], q.low, q.high>>
                /\ (<<"LowPriceAlert", q.low>> \in notification')
                      <=> (lowSet /\ q.low <= low_price_alert[t][1])
                /\ (<<"HighPriceAlert", q.high>> \in notification')
                      <=> (highSet /\ q.high >= high_price_alert[t][1])
                /\ notification' \subseteq
                      {<<"LowPriceAlert", q.low>>, <<"HighPriceAlert", q.high>>}
                /\ pc'[t] = "sleep"]_vars

\* C7 witness: a session with low = 100 only has just ticked on a quote
\* whose low is exactly 100, and the low alert alone was raised.
C7_Witness ==
    \E t \in Threads :
        /\ pc[t] = "sleep"
        /\ low_price_alert[t] = Some(100)
        /\ high_price_alert[t] = None
        /\ result_label = <<"Cannonball", 100, 200>>
        /\ notification = {<<"LowPriceAlert", 100>>}

\* C8: once stop_monitoring has been called on a running loop and
\* start_monitoring is not called again, the loop eventually exits.
C8_LoopExitsAfterStop ==
    \A t \in Threads :
        (stopped /\ InLoop(t)) ~> (~stopped \/ pc[t] = "done")

\* C9: get_price runs in any monitor state and changes nothing of the
\* session: not the flag, the loops' position, item or thresholds, not the
\* alerts, not the buttons.  (GetPriceStep => UNCHANGED ..., conclusion first.)
C9_GetPriceLeavesSession ==
    [][\/ UNCHANGED <<monitoring, pc, item, low_price_alert,
                       high_price_alert, notification,
                       start_button, stop_button>>
       \/ ~GetPriceStep]_vars

\* C9 witness: the only loop, with low = 100, last ticked without raising an
\* alert, and the result label shows a low of 50: get_price displayed it
\* while the session was armed.
C9_Witness ==
    /\ monitoring
    /\ pc[1] = "sleep"
    /\ \A t \in Threads : t # 1 => pc[t] = "unborn"
    /\ low_price_alert[1] = Some(100)
    /\ notification = {}
    /\ result_label = <<"Cannonball", 50, 150>>

\* C10: name resolution reports ItemNotFound exactly for the names that are
\* not keys of the catalog, in get_price and in monitor_price alike: a name
\* that is a key goes on to the price lookup or to the threshold checks.
C10_NotFoundIffAbsent ==
    [][/\ \A n \in Names, pd \in PriceTables :
            get_price(n, pd) =>
                IF n \notin DOMAIN item_dict
                THEN status_label' = ItemNotFound
                ELSE IF Available(pd, item_dict[n])
                THEN result_label'[1] = n
                ELSE status_label' = PriceUnavailable
       /\ \A t \in Threads : (pc[t] = "start" /\ pc'[t] # "start") =>
          \A n \in Names, th \in ThresholdInputs :
            monitor_price_start(t, n, th[1], th[2]) =>
                ((pc'[t] = "rejected" /\ status_label' = ItemNotFound)
                    <=> n \notin DOMAIN item_dict)]_vars

====
